---- MODULE Spec2Model ----
(***************************************************************************)
(* PandasOnRayDataframePartition (partition.py): a partition wraps either  *)
(* a resolved remote handle or a DeferredExecution node, and addresses its *)
(* row count, column count and worker location inside a shared MetaList.   *)
(*                                                                         *)
(* DeferredExecution, MetaList, remote_exec_func, RayWrapper and the base  *)
(* class PandasDataframePartition are imported by partition.py; their      *)
(* behaviour is taken from the specification (sections 3, 4.1, 4.2, 4.3).  *)
(***************************************************************************)
EXTENDS Integers, Sequences, FiniteSets, TLC

\* ------------------------------------------------------------------ bounds
MaxParts == 3
MaxNodes == 2
\* The partitions made from outside data (put, the constructor) are the first
\* MaxRoots ones; every later one is made from a partition.
MaxRoots == 1
MaxStrLen == 3      \* characters in a string column name
MaxTupleLen == 2    \* elements in a tuple column name
MaxDtypes == 2      \* LazyProxyCategoricalDtype objects

\* --------------------------------------------------------------- the values
\* A materialized block: a value v (what the opaque functions transform) and
\* its shape (r rows, c columns).
NoDF == [v |-> 0, r |-> 0, c |-> 0]
PutValues == {[v |-> 3, r |-> 2, c |-> 2]}

\* The opaque transformations handed to apply / add_to_apply_calls, and the
\* positional indexer mask() queues.  A slice is "full" (slice(None)) or
\* "head" (slice(0, 1)).
Slices == {"full", "head"}
NoSlice == "full"
Fn(name) == [name |-> name, rs |-> NoSlice, cs |-> NoSlice]
Iloc(rs, cs) == [name |-> "iloc", rs |-> rs, cs |-> cs]
Funcs == {Fn("add_one"), Fn("double")}

\* modin.pandas.indexing.compute_sliced_len, for the two slices of the model.
compute_sliced_len(s, len) == IF s = "full" THEN len ELSE IF len < 1 THEN len ELSE 1

\* The function a worker runs.
ApplyFunc(f, df) ==
    CASE f.name = "add_one" -> [df EXCEPT !.v = @ + 1]
      [] f.name = "double"  -> [df EXCEPT !.v = 2 * @]
      [] f.name = "iloc"    -> [df EXCEPT !.r = compute_sliced_len(f.rs, @),
                                          !.c = compute_sliced_len(f.cs, @)]

\* A metadata slot: None, a concrete int / str, or an ObjectIDType handle to it.
None == [k |-> "none", n |-> 0]
IntV(n) == [k |-> "int", n |-> n]
StrV(n) == [k |-> "str", n |-> n]
RefV(n) == [k |-> "ref", n |-> n]
IsObjectIDType(x) == x.k = "ref"

\* The worker that holds every result (its address is the location value).
Worker == 1

\* _data_ref: a resolved handle (identity id, content df) or a
\* DeferredExecution (node index id).  A handle is identified by the call that
\* returned it: <<"put", q>> and <<"apply", q>> for the handle partition q was
\* constructed with, <<"de", n, k>> for the result of the k-th submission of
\* node n.
Handle(id, df) == [k |-> "ref", id |-> id, df |-> df]
NoHandle == Handle(<<>>, NoDF)
DE(n) == [k |-> "de", id |-> n, df |-> NoDF]
IsDeferredExecution(d) == d.k = "de"

VARIABLES
    parts,    \* the partitions ever constructed, by index
    nodes,    \* the DeferredExecution nodes ever constructed, by index
    metas,    \* the MetaLists ever constructed, by index
    lazy,     \* LazyExecution.get()
    last,     \* the operation that produced this state
    done,     \* the ids of the handles whose remote call the backend completed
    col,      \* a column name on its way through encode_col_name and back
    dtypes    \* the LazyProxyCategoricalDtype objects ever constructed

\* No column name is on its way.
NoCol == [step |-> "none"]

vars == <<parts, nodes, metas, lazy, last, done, col, dtypes>>

\* A MetaList is identified by what constructed it: partition q's own list is
\* list q, the list returned by the submission of node n is list MaxParts + n.
MetaIds == 1..(MaxParts + MaxNodes)
OwnMeta(q) == q
ExecMeta(n) == MaxParts + n

\* A partition: _data_ref, _meta (a MetaList's id) and _meta_offset.  Beside
\* them it records whether its drain_call_queue has completed on a pending
\* node (drained), how it was made (how) and the block that the calls it was
\* made by denote when applied one after the other (val).
Partition(data, meta, meta_offset) ==
    [alive |-> TRUE, data |-> data, meta |-> meta, off |-> meta_offset,
     drained |-> FALSE, how |-> "", val |-> NoDF]

\* A partition that was destroyed.
NoPart == [alive |-> FALSE, data |-> NoHandle, meta |-> 0, off |-> 0,
           drained |-> FALSE, how |-> "", val |-> NoDF]

\* The objects an operation works on, as one record, with the number of
\* remote function dispatches it has made (calls), how many of them were
\* _get_index_and_columns (dims), and the value it returns.
Cur == [parts |-> parts, nodes |-> nodes, metas |-> metas, calls |-> 0, dims |-> 0,
        ret |-> None, raised |-> FALSE]

Alive == {p \in 1..Len(parts) : parts[p].alive}
Pending(p) == IsDeferredExecution(parts[p].data)

\* ------------------------------------------------------- DeferredExecution
\* DeferredExecution.ref_count(diff).  A node owns a reference to the node it
\* is built over: a count that falls to zero before the node was submitted
\* releases the node, and with it that reference (spec 4.2: the count is
\* decremented on owner destruction; a count reaching zero signals that the
\* node may be released without ever having executed).
RECURSIVE ref_count(_, _, _)
ref_count(ns, n, diff) ==
    LET ns1 == [ns EXCEPT ![n].ref_counter = @ + diff]
    IN  IF /\ diff < 0
           /\ ns1[n].ref_counter = 0
           /\ ~ns1[n].has_result
           /\ IsDeferredExecution(ns1[n].data)
        THEN ref_count(ns1, ns1[n].data.id, -1)
        ELSE ns1

\* DeferredExecution(data, func, args, kwargs, flat_args, flat_kwargs):
\* a new, unsubmitted node over data with reference count 0; it is a new owner
\* of the node it is built over (spec 4.2: incrementing on every new owner,
\* Partition or dependent node).  The arguments and their flatness flags only
\* decide how the arguments travel to the worker; the node keeps what the
\* operations below read.  subs counts the node's submissions, count_at_sub
\* is its reference count when it was last submitted and owners collects the
\* partitions constructed on it.
DeferredExecution(ns, data, func, flat_args, flat_kwargs) ==
    Append(IF IsDeferredExecution(data) THEN ref_count(ns, data.id, 1) ELSE ns,
           [data |-> data, func |-> func,
            ref_counter |-> 0, has_result |-> FALSE,
            res |-> NoHandle, meta |-> 0, off |-> 0,
            subs |-> 0, count_at_sub |-> 0, owners |-> {}])

\* The block node n denotes: its function applied to what its source denotes.
RECURSIVE EvalNode(_, _)
EvalNode(ns, n) ==
    LET d == ns[n].data
    IN  ApplyFunc(ns[n].func, IF IsDeferredExecution(d) THEN EvalNode(ns, d.id) ELSE d.df)

\* The nodes one submission of n sends: n and every not yet submitted node it
\* is built over, the deepest first.
RECURSIVE Chain(_, _)
Chain(ns, n) ==
    IF ns[n].has_result THEN <<>>
    ELSE LET d == ns[n].data
         IN  (IF IsDeferredExecution(d) THEN Chain(ns, d.id) ELSE <<>>) \o <<n>>

\* The MetaList one remote call returns for the chain ch: a row count and a
\* column count handle per result, and the worker location in the last slot.
RECURSIVE ChainMeta(_, _)
ChainMeta(ns, ch) ==
    IF ch = <<>> THEN <<RefV(Worker)>>
    ELSE LET df == EvalNode(ns, Head(ch))
         IN  <<RefV(df.r), RefV(df.c)>> \o ChainMeta(ns, Tail(ch))

\* The position of node n in the chain ch (1-based).
PosIn(ch, n) == CHOOSE i \in 1..Len(ch) : ch[i] = n

\* The number of nodes of the chain ch that are built over node i.
RECURSIVE Dependents(_, _, _)
Dependents(ns, ch, i) ==
    IF ch = <<>> THEN 0
    ELSE (IF ns[Head(ch)].data = DE(i) THEN 1 ELSE 0) + Dependents(ns, Tail(ch), i)

\* DeferredExecution.exec(): the memoized (data, meta, meta_offset) when the
\* node has its result; otherwise one remote call for the node's chain, every
\* node of the chain keeping its result, the MetaList and its offset in it,
\* and giving up its reference to the node it was built over (spec 4.2:
\* decrementing on successful drain).  The triple is returned in ret.
exec(S, n) ==
    IF S.nodes[n].has_result
    THEN [S EXCEPT !.ret = [data |-> S.nodes[n].res, meta |-> S.nodes[n].meta,
                            off |-> S.nodes[n].off]]
    ELSE LET ns == S.nodes
             ch == Chain(ns, n)
             m  == ExecMeta(n)
             ns1 == [i \in 1..Len(ns) |->
                        [ns[i] EXCEPT !.ref_counter = @ - Dependents(ns, ch, i)]]
             ns2 == [i \in 1..Len(ns) |->
                        IF \E j \in 1..Len(ch) : ch[j] = i
                        THEN [ns1[i] EXCEPT !.has_result = TRUE,
                                           !.res = Handle(<<"de", i, ns[i].subs + 1>>,
                                                          EvalNode(ns, i)),
                                           !.meta = m,
                                           !.off = 2 * (PosIn(ch, i) - 1),
                                           !.subs = @ + 1,
                                           !.count_at_sub = ns[i].ref_counter]
                        ELSE ns1[i]]
         IN  [S EXCEPT !.nodes = ns2,
                       !.metas[m] = ChainMeta(ns, ch),
                       !.calls = S.calls + 1,
                       !.ret = [data |-> ns2[n].res, meta |-> m, off |-> ns2[n].off]]

\* remote_exec_func.remote(func, data, *args, **kwargs): one remote call that
\* returns the result handle and handles to its length, width and location.
remote_exec_func(S, func, data) ==
    LET df == ApplyFunc(func, data.df)
    IN  [S EXCEPT !.calls = S.calls + 1,
                  !.ret = [data |-> Handle(<<"apply", Len(S.parts) + 1>>, df),
                           length |-> RefV(df.r),
                           width |-> RefV(df.c), ip |-> RefV(Worker)]]

\* -------------------------------------------------------------- Partition
\* The _length_cache / _width_cache / _ip_cache properties and their setters.
_length_cache(ms, part) == ms[part.meta][part.off + 1]
_width_cache(ms, part) == ms[part.meta][part.off + 2]
_ip_cache(ms, part) == ms[part.meta][Len(ms[part.meta])]
\* A _length_cache setter that writes the array's first slot, whatever the offset.
set_length_ignores_offset(ms, part, v) == [ms EXCEPT ![part.meta][1] = v]
set_length_cache(ms, part, v) == [ms EXCEPT ![part.meta][part.off + 1] = v]
set_width_cache(ms, part, v) == [ms EXCEPT ![part.meta][part.off + 2] = v]
set_ip_cache(ms, part, v) == [ms EXCEPT ![part.meta][Len(ms[part.meta])] = v]

\* An __init__ that takes the node without counting itself as its owner.
init_skips_count(S, data, length, width, ip, meta, meta_offset) ==
    LET q   == Len(S.parts) + 1
        ns1 == IF IsDeferredExecution(data)
               THEN [S.nodes EXCEPT ![data.id].owners = @ \cup {q}]
               ELSE S.nodes
    IN  IF meta = 0
        THEN [S EXCEPT !.nodes = ns1,
                       !.metas[OwnMeta(q)] = <<length, width, ip>>,
                       !.parts = Append(S.parts, Partition(data, OwnMeta(q), 0))]
        ELSE [S EXCEPT !.nodes = ns1,
                       !.parts = Append(S.parts, Partition(data, meta, meta_offset))]

\* PandasOnRayDataframePartition.__init__(data, length, width, ip, meta,
\* meta_offset); meta = 0 stands for meta=None.  The new partition gets the
\* next index, Len(parts) + 1.
__init__(S, data, length, width, ip, meta, meta_offset) ==
    LET q   == Len(S.parts) + 1
        ns1 == IF IsDeferredExecution(data)
               THEN [ref_count(S.nodes, data.id, 1) EXCEPT ![data.id].owners = @ \cup {q}]
               ELSE S.nodes
    IN  IF meta = 0
        THEN [S EXCEPT !.nodes = ns1,
                       !.metas[OwnMeta(q)] = <<length, width, ip>>,
                       !.parts = Append(S.parts, Partition(data, OwnMeta(q), 0))]
        ELSE [S EXCEPT !.nodes = ns1,
                       !.parts = Append(S.parts, Partition(data, meta, meta_offset))]

\* __del__ that forgets the node.
del_keeps_count(S, p) ==
    [S EXCEPT !.parts[p] = NoPart]

\* __del__
__del__(S, p) ==
    LET data == S.parts[p].data
    IN  [S EXCEPT !.nodes = IF IsDeferredExecution(data)
                            THEN ref_count(S.nodes, data.id, -1) ELSE S.nodes,
                  !.parts[p] = NoPart]

\* apply that takes the direct call for flat arguments without looking at
\* what the data is: the worker is handed the node, not a block.
apply_unchecked_data(S, p, func, flat_args, flat_kwargs, lz) ==
    LET data == S.parts[p].data
        n    == Len(S.nodes) + 1
        de   == DeferredExecution(S.nodes, data, func, flat_args, flat_kwargs)
    IN  IF lz
        THEN __init__([S EXCEPT !.nodes = de], DE(n), None, None, None, 0, 0)
        ELSE IF flat_args /\ flat_kwargs
        THEN LET r == remote_exec_func(S, func, data)
             IN  __init__(r, r.ret.data, r.ret.length, r.ret.width, r.ret.ip, 0, 0)
        ELSE LET r == exec([S EXCEPT !.nodes = ref_count(de, n, 1)], n)
             IN  __init__(r, r.ret.data, None, None, None, r.ret.meta, r.ret.off)

\* apply that looks at the positional arguments only.
apply_ignores_kwargs(S, p, func, flat_args, flat_kwargs, lz) ==
    LET data == S.parts[p].data
        n    == Len(S.nodes) + 1
        de   == DeferredExecution(S.nodes, data, func, flat_args, flat_kwargs)
    IN  IF lz
        THEN __init__([S EXCEPT !.nodes = de], DE(n), None, None, None, 0, 0)
        ELSE IF ~IsDeferredExecution(data) /\ flat_args
        THEN LET r == remote_exec_func(S, func, data)
             IN  __init__(r, r.ret.data, r.ret.length, r.ret.width, r.ret.ip, 0, 0)
        ELSE LET r == exec([S EXCEPT !.nodes = ref_count(de, n, 1)], n)
             IN  __init__(r, r.ret.data, None, None, None, r.ret.meta, r.ret.off)

\* apply that executes the node it builds in lazy mode too.
apply_lazy_executes(S, p, func, flat_args, flat_kwargs, lz) ==
    LET data == S.parts[p].data
        n    == Len(S.nodes) + 1
        de   == DeferredExecution(S.nodes, data, func, flat_args, flat_kwargs)
    IN  IF ~lz /\ ~IsDeferredExecution(data) /\ flat_args /\ flat_kwargs
        THEN LET r == remote_exec_func(S, func, data)
             IN  __init__(r, r.ret.data, r.ret.length, r.ret.width, r.ret.ip, 0, 0)
        ELSE LET r == exec([S EXCEPT !.nodes = ref_count(de, n, 1)], n)
             IN  __init__(r, r.ret.data, None, None, None, r.ret.meta, r.ret.off)

\* apply that executes the node it built before it counts its reference.
apply_exec_before_count(S, p, func, flat_args, flat_kwargs, lz) ==
    LET data == S.parts[p].data
        n    == Len(S.nodes) + 1
        de   == DeferredExecution(S.nodes, data, func, flat_args, flat_kwargs)
    IN  IF lz
        THEN __init__([S EXCEPT !.nodes = de], DE(n), None, None, None, 0, 0)
        ELSE IF ~IsDeferredExecution(data) /\ flat_args /\ flat_kwargs
        THEN LET r == remote_exec_func(S, func, data)
             IN  __init__(r, r.ret.data, r.ret.length, r.ret.width, r.ret.ip, 0, 0)
        ELSE LET r  == exec([S EXCEPT !.nodes = de], n)
                 r1 == [r EXCEPT !.nodes = ref_count(r.nodes, n, 1)]
             IN  __init__(r1, r.ret.data, None, None, None, r.ret.meta, r.ret.off)

\* apply that, on the node path, also releases the receiver's node.
apply_releases_receiver(S, p, func, flat_args, flat_kwargs, lz) ==
    LET data == S.parts[p].data
        n    == Len(S.nodes) + 1
        de   == DeferredExecution(S.nodes, data, func, flat_args, flat_kwargs)
    IN  IF lz
        THEN __init__([S EXCEPT !.nodes = de], DE(n), None, None, None, 0, 0)
        ELSE IF ~IsDeferredExecution(data) /\ flat_args /\ flat_kwargs
        THEN LET r == remote_exec_func(S, func, data)
             IN  __init__(r, r.ret.data, r.ret.length, r.ret.width, r.ret.ip, 0, 0)
        ELSE LET r  == exec([S EXCEPT !.nodes = ref_count(de, n, 1)], n)
                 r1 == IF IsDeferredExecution(data)
                       THEN [r EXCEPT !.nodes = ref_count(r.nodes, data.id, -1)]
                       ELSE r
             IN  __init__(r1, r.ret.data, None, None, None, r.ret.meta, r.ret.off)

\* apply(func, *args, **kwargs) under LazyExecution.get() = lz; flat_args and
\* flat_kwargs are what has_list_or_de finds in args and kwargs.
apply(S, p, func, flat_args, flat_kwargs, lz) ==
    LET data == S.parts[p].data
        n    == Len(S.nodes) + 1
        de   == DeferredExecution(S.nodes, data, func, flat_args, flat_kwargs)
    IN  IF lz
        THEN __init__([S EXCEPT !.nodes = de], DE(n), None, None, None, 0, 0)
        ELSE IF ~IsDeferredExecution(data) /\ flat_args /\ flat_kwargs
        THEN LET r == remote_exec_func(S, func, data)
             IN  __init__(r, r.ret.data, r.ret.length, r.ret.width, r.ret.ip, 0, 0)
        ELSE LET r == exec([S EXCEPT !.nodes = ref_count(de, n, 1)], n)
             IN  __init__(r, r.ret.data, None, None, None, r.ret.meta, r.ret.off)

\* add_to_apply_calls that does not hand the asserted dimensions on.
add_to_apply_calls_drops_dims(S, p, func, flat_args, flat_kwargs, length, width) ==
    LET n  == Len(S.nodes) + 1
        de == DeferredExecution(S.nodes, S.parts[p].data, func, flat_args, flat_kwargs)
    IN  __init__([S EXCEPT !.nodes = de], DE(n), None, None, None, 0, 0)

\* add_to_apply_calls(func, *args, length=None, width=None, **kwargs)
add_to_apply_calls(S, p, func, flat_args, flat_kwargs, length, width) ==
    LET n  == Len(S.nodes) + 1
        de == DeferredExecution(S.nodes, S.parts[p].data, func, flat_args, flat_kwargs)
    IN  __init__([S EXCEPT !.nodes = de], DE(n), length, width, None, 0, 0)

\* drain_call_queue that keeps the MetaList and the offset the partition had.
drain_keeps_meta(S, p) ==
    LET data == S.parts[p].data
    IN  IF ~IsDeferredExecution(data)
        THEN [S EXCEPT !.ret = data]
        ELSE LET r == exec(S, data.id)
             IN  [r EXCEPT !.ret = None,
                           !.parts[p].data = r.ret.data,
                           !.parts[p].drained = TRUE,
                           !.nodes = ref_count(r.nodes, data.id, -1)]

\* drain_call_queue that does not store the resolved handle.
drain_keeps_node(S, p) ==
    LET data == S.parts[p].data
    IN  IF ~IsDeferredExecution(data)
        THEN [S EXCEPT !.ret = data]
        ELSE LET r == exec(S, data.id)
             IN  [r EXCEPT !.ret = None,
                           !.parts[p].meta = r.ret.meta,
                           !.parts[p].off = r.ret.off,
                           !.parts[p].drained = TRUE,
                           !.nodes = ref_count(r.nodes, data.id, -1)]

\* drain_call_queue(), after exec: r holds the objects after exec and, in
\* ret, the (data, meta, meta_offset) it returned for node n.
store_result(r, p, n) ==
    [r EXCEPT !.ret = None,
              !.parts[p].data = r.ret.data,
              !.parts[p].meta = r.ret.meta,
              !.parts[p].off = r.ret.off,
              !.parts[p].drained = TRUE,
              !.nodes = ref_count(r.nodes, n, -1)]

\* drain_call_queue()
drain_call_queue(S, p) ==
    LET data == S.parts[p].data
    IN  IF ~IsDeferredExecution(data)
        THEN [S EXCEPT !.ret = data]
        ELSE store_result(exec(S, data.id), p, data.id)

\* DeferredExecution.exec() or remote_exec_func.remote() when the submission
\* fails: the one remote call is attempted and the failure is raised to the
\* caller; nothing is stored.
submission_raises(S) == [S EXCEPT !.calls = S.calls + 1, !.raised = TRUE]

\* A drain_call_queue that, when exec raises, still releases the node.
drain_raises_releases(S, p) ==
    LET data == S.parts[p].data
    IN  IF ~IsDeferredExecution(data)
        THEN [S EXCEPT !.ret = data]
        ELSE [submission_raises(S) EXCEPT !.nodes = ref_count(S.nodes, data.id, -1)]

\* drain_call_queue() when data.exec() raises: the exception leaves the
\* method before the assignment of the triple and before ref_count(-1).
drain_call_queue_raises(S, p) ==
    LET data == S.parts[p].data
    IN  IF ~IsDeferredExecution(data)
        THEN [S EXCEPT !.ret = data]
        ELSE submission_raises(S)

\* apply in eager mode when the remote call raises: on the direct path
\* nothing was built; on the node path the node was built and its count
\* incremented before exec raised.  No partition is constructed.
apply_raises(S, p, func, flat_args, flat_kwargs) ==
    LET data == S.parts[p].data
        n    == Len(S.nodes) + 1
        de   == DeferredExecution(S.nodes, data, func, flat_args, flat_kwargs)
    IN  IF ~IsDeferredExecution(data) /\ flat_args /\ flat_kwargs
        THEN submission_raises(S)
        ELSE submission_raises([S EXCEPT !.nodes = ref_count(de, n, 1)])

\* A __copy__ that gives the copy a MetaList of its own.
copy_own_meta(S, p) ==
    __init__(S, S.parts[p].data, _length_cache(S.metas, S.parts[p]),
             _width_cache(S.metas, S.parts[p]), _ip_cache(S.metas, S.parts[p]), 0, 0)

\* __copy__()
__copy__(S, p) ==
    __init__(S, S.parts[p].data, None, None, None, S.parts[p].meta, S.parts[p].off)

\* The base class's mask(row_labels, col_labels) for slice labels: the
\* positional indexer is queued, and an axis whose cached length is a
\* concrete integer gets the sliced length computed locally.
base_mask(S, p, row_labels, col_labels) ==
    LET len == _length_cache(S.metas, S.parts[p])
        wid == _width_cache(S.metas, S.parts[p])
        recompute(s, c) == IF c.k = "int" THEN IntV(compute_sliced_len(s, c.n)) ELSE None
    IN  add_to_apply_calls(S, p, Iloc(row_labels, col_labels), TRUE, TRUE,
                           recompute(row_labels, len), recompute(col_labels, wid))

\* compute_sliced_len.remote(slice, length handle): one remote call that
\* returns a handle to the sliced length.
remote_sliced_len(s, c) == RefV(compute_sliced_len(s, c.n))

\* mask, the row labels: b holds the objects after the base class's mask,
\* whose result is the newest partition, and len is the receiver's
\* _length_cache.
mask_rows(b, len, row_labels) ==
    LET new == b.parts[Len(b.parts)]
    IN  IF ~IsObjectIDType(len) THEN b
        ELSE IF row_labels = "full"
        THEN [b EXCEPT !.metas = set_length_cache(b.metas, new, len)]
        ELSE [b EXCEPT !.metas = set_length_cache(b.metas, new,
                                                  remote_sliced_len(row_labels, len)),
                       !.calls = b.calls + 1]

\* mask, the column labels.
mask_cols(b, wid, col_labels) ==
    LET new == b.parts[Len(b.parts)]
    IN  IF ~IsObjectIDType(wid) THEN b
        ELSE IF col_labels = "full"
        THEN [b EXCEPT !.metas = set_width_cache(b.metas, new, wid)]
        ELSE [b EXCEPT !.metas = set_width_cache(b.metas, new,
                                                 remote_sliced_len(col_labels, wid)),
                       !.calls = b.calls + 1]

\* mask_rows that dispatches the helper for a full slice too.
mask_rows_dispatches(b, len, row_labels) ==
    LET new == b.parts[Len(b.parts)]
    IN  IF ~IsObjectIDType(len) THEN b
        ELSE [b EXCEPT !.metas = set_length_cache(b.metas, new,
                                                  remote_sliced_len(row_labels, len)),
                       !.calls = b.calls + 1]

\* mask that dispatches the helper for a full slice of the rows too.
mask_always_dispatches(S, p, row_labels, col_labels) ==
    mask_cols(mask_rows_dispatches(base_mask(S, p, row_labels, col_labels),
                                   _length_cache(S.metas, S.parts[p]), row_labels),
              _width_cache(S.metas, S.parts[p]), col_labels)

\* mask(row_labels, col_labels), both labels slices
mask(S, p, row_labels, col_labels) ==
    mask_cols(mask_rows(base_mask(S, p, row_labels, col_labels),
                        _length_cache(S.metas, S.parts[p]), row_labels),
              _width_cache(S.metas, S.parts[p]), col_labels)

\* _get_index_and_columns.remote(self._data_ref): one remote call that returns
\* handles to the number of rows and of columns.
_get_index_and_columns(S, data) ==
    [S EXCEPT !.calls = S.calls + 1, !.dims = S.dims + 1,
              !.ret = [length |-> RefV(data.df.r), width |-> RefV(data.df.c)]]

\* RayWrapper.materialize of a length, width or location handle.
materialize_int(x) == IntV(x.n)
materialize_str(x) == StrV(x.n)

\* length and width, the joint fetch: on the drained partition p of d, if
\* the slot is still absent, one _get_index_and_columns call whose two
\* handles are written to _length_cache and _width_cache.
fetch_both(d, p, absent) ==
    IF ~absent THEN d
    ELSE LET g == _get_index_and_columns(d, d.parts[p].data)
         IN  [g EXCEPT !.metas = set_length_cache(
                                     set_width_cache(g.metas, g.parts[p], g.ret.width),
                                     g.parts[p], g.ret.length)]

\* A fetch that caches the row count alone.
fetch_length_alone(d, p, absent) ==
    IF ~absent THEN d
    ELSE LET g == _get_index_and_columns(d, d.parts[p].data)
         IN  [g EXCEPT !.metas = set_length_cache(g.metas, g.parts[p], g.ret.length)]

\* length, its last lines: the cached value is materialized, and then cached,
\* if asked for, and returned.
return_length(S1, p, mat) ==
    LET len == _length_cache(S1.metas, S1.parts[p])
    IN  IF mat /\ IsObjectIDType(len)
        THEN [S1 EXCEPT !.metas = set_length_cache(S1.metas, S1.parts[p],
                                                   materialize_int(len)),
                        !.ret = materialize_int(len)]
        ELSE [S1 EXCEPT !.ret = len]

\* The same for width.
return_width(S1, p, mat) ==
    LET wid == _width_cache(S1.metas, S1.parts[p])
    IN  IF mat /\ IsObjectIDType(wid)
        THEN [S1 EXCEPT !.metas = set_width_cache(S1.metas, S1.parts[p],
                                                  materialize_int(wid)),
                        !.ret = materialize_int(wid)]
        ELSE [S1 EXCEPT !.ret = wid]

\* The drained objects d with the row count fetched if it is still absent.
length_after_drain(d, p) == fetch_both(d, p, _length_cache(d.metas, d.parts[p]) = None)
length_alone_after_drain(d, p) ==
    fetch_length_alone(d, p, _length_cache(d.metas, d.parts[p]) = None)
width_after_drain(d, p) == fetch_both(d, p, _width_cache(d.metas, d.parts[p]) = None)

\* length that fetches and caches the row count alone.
length_alone(S, p, mat) ==
    return_length(IF _length_cache(S.metas, S.parts[p]) = None
                  THEN length_alone_after_drain(drain_call_queue(S, p), p)
                  ELSE S,
                  p, mat)

\* length(materialize)
length(S, p, mat) ==
    return_length(IF _length_cache(S.metas, S.parts[p]) = None
                  THEN length_after_drain(drain_call_queue(S, p), p)
                  ELSE S,
                  p, mat)

\* width(materialize)
width(S, p, mat) ==
    return_width(IF _width_cache(S.metas, S.parts[p]) = None
                 THEN width_after_drain(drain_call_queue(S, p), p)
                 ELSE S,
                 p, mat)

\* ip, its last lines: loc is the location read before the drain, S1 the
\* objects after it.
return_ip(S1, p, mat, loc) ==
    IF mat /\ IsObjectIDType(loc)
    THEN [S1 EXCEPT !.metas = set_ip_cache(S1.metas, S1.parts[p], materialize_str(loc)),
                    !.ret = materialize_str(loc)]
    ELSE [S1 EXCEPT !.ret = loc]

\* ip(materialize): the location read before the drain is the one that is
\* materialized and returned.
ip(S, p, mat) ==
    return_ip(IF _ip_cache(S.metas, S.parts[p]) = None THEN drain_call_queue(S, p) ELSE S,
              p, mat, _ip_cache(S.metas, S.parts[p]))

\* RayWrapper.wait(handle): whether the backend has completed the call that
\* produces the handle h, dn being the ids of the completed calls' handles.  A
\* handle made by put is complete.
Completed(h, dn) ==
    /\ ~IsDeferredExecution(h)
    /\ h.id # <<>>
    /\ (h.id[1] = "put" \/ h.id \in dn)

\* wait that does not drain the call queue.
wait_skips_drain(S, p) == [S EXCEPT !.ret = None]

\* wait(), up to the point where RayWrapper.wait blocks: the call queue is
\* drained; wait returns nothing.
wait(S, p) == [drain_call_queue(S, p) EXCEPT !.ret = None]

\* ------------------------------------------------------- column-name codec
\* A string is the sequence of its characters.  Column names are records
\* tagged with their Python type; Raised stands for a call that raised.
NoneName == [t |-> "none"]
IntName(i) == [t |-> "int", i |-> i]
FloatName(w, f) == [t |-> "float", w |-> w, f |-> f]
StrName(s) == [t |-> "str", s |-> s]
TimestampName(ts, tz) == [t |-> "Timestamp", ts |-> ts, tz |-> tz]
TupleName(e) == [t |-> "tuple", e |-> e]
Raised == [t |-> "raised"]

ascii_uppercase ==
    <<"A", "B", "C", "D", "E", "F", "G", "H", "I", "J", "K", "L", "M",
      "N", "O", "P", "Q", "R", "S", "T", "U", "V", "W", "X", "Y", "Z">>
ascii_lowercase ==
    <<"a", "b", "c", "d", "e", "f", "g", "h", "i", "j", "k", "l", "m",
      "n", "o", "p", "q", "r", "s", "t", "u", "v", "w", "x", "y", "z">>
digits == <<"0", "1", "2", "3", "4", "5", "6", "7", "8", "9">>

IDX_COL_NAME == <<"_", "_", "i", "n", "d", "e", "x", "_", "_">>
ROWID_COL_NAME == <<"_", "_", "r", "o", "w", "i", "d", "_", "_">>
MODIN_UNNAMED_SERIES_LABEL == <<"_", "_", "r", "e", "d", "u", "c", "e", "d", "_", "_">>

\* Bytes 62 and 63 are encoded with 2 characters.  _BASE_LIST[i + 1] is the
\* code of the 6-bit integer i.
_BASE_EXT == << <<"_", "A">>, <<"_", "B">> >>
_BASE_LIST ==
    [i \in 1..62 |-> <<(ascii_uppercase \o ascii_lowercase \o digits)[i]>>] \o _BASE_EXT
InBaseDict(c) == \E i \in 0..63 : _BASE_LIST[i + 1] = c
_BASE_DICT(c) == CHOOSE i \in 0..63 : _BASE_LIST[i + 1] = c
_RESERVED_NAMES == {MODIN_UNNAMED_SERIES_LABEL, ROWID_COL_NAME}

\* _NON_ALPHANUM_PATTERN matches the runs of characters outside a-zA-Z0-9.
IsAlnum(c) == \E i \in 1..62 : (ascii_uppercase \o ascii_lowercase \o digits)[i] = c

\* str.encode("UTF-8") and bytes.decode("UTF-8") on the characters that are
\* not alphanumeric; "?" stands for any character beside them.
Utf8 == [c \in {"_", "-", ".", " "} |->
            CASE c = "_" -> 95 [] c = "-" -> 45 [] c = "." -> 46 [] c = " " -> 32]
encode_utf8(src) == [i \in 1..Len(src) |-> Utf8[src[i]]]
decode_utf8(raw) ==
    [i \in 1..Len(raw) |->
        IF \E c \in DOMAIN Utf8 : Utf8[c] = raw[i]
        THEN CHOOSE c \in DOMAIN Utf8 : Utf8[c] = raw[i]
        ELSE "?"]

\* str methods, with Python's 0-based offsets.
startswith(s, prefix) == Len(s) >= Len(prefix) /\ SubSeq(s, 1, Len(prefix)) = prefix
Smallest(S) == CHOOSE i \in S : \A j \in S : i <= j
find(s, sub, start) ==
    LET hits == {i \in start..(Len(s) - Len(sub)) : SubSeq(s, i + 1, i + Len(sub)) = sub}
    IN  IF hits = {} THEN -1 ELSE Smallest(hits)
RECURSIVE split(_, _)
split(s, sep) ==
    LET idx == find(s, sep, 0)
    IN  IF idx = -1 THEN <<s>>
        ELSE <<SubSeq(s, 1, idx)>> \o split(SubSeq(s, idx + Len(sep) + 1, Len(s)), sep)

\* str(int) and int(str).
RECURSIVE str_nat(_)
str_nat(n) == IF n < 10 THEN <<digits[n + 1]>> ELSE str_nat(n \div 10) \o <<digits[(n % 10) + 1]>>
str_int(n) == IF n < 0 THEN <<"-">> \o str_nat(-n) ELSE str_nat(n)
IsDigits(s) == s # <<>> /\ \A i \in 1..Len(s) : \E d \in 1..10 : digits[d] = s[i]
RECURSIVE nat(_)
nat(s) ==
    IF s = <<>> THEN 0
    ELSE 10 * nat(SubSeq(s, 1, Len(s) - 1)) + (CHOOSE d \in 0..9 : digits[d + 1] = s[Len(s)])
int(s) ==
    IF IsDigits(s) THEN IntName(nat(s))
    ELSE IF s # <<>> /\ s[1] = "-" /\ IsDigits(Tail(s)) THEN IntName(-nat(Tail(s)))
    ELSE Raised

\* str(float) and float(str) for the floats w.f with one digit f after the
\* point.
str_float(x) == str_int(x.w) \o <<".">> \o <<digits[x.f + 1]>>
float(s) ==
    LET dot == find(s, <<".">>, 0)
    IN  IF /\ dot # -1
           /\ int(SubSeq(s, 1, dot)) # Raised
           /\ Len(s) = dot + 2
           /\ IsDigits(SubSeq(s, dot + 2, Len(s)))
        THEN FloatName(int(SubSeq(s, 1, dot)).i, nat(SubSeq(s, dot + 2, Len(s))))
        ELSE Raised

\* _quote(src, dst): what it appends to dst.  quote_chunks is its while loop
\* over the bytes left, three at a time.
RECURSIVE quote_chunks(_)
quote_chunks(chars) ==
    IF chars = <<>> THEN <<>>
    ELSE LET nbytes == IF Len(chars) < 3 THEN Len(chars) ELSE 3
             n == IF nbytes = 1 THEN chars[1] * 65536
                  ELSE IF nbytes = 2 THEN chars[1] * 65536 + chars[2] * 256
                  ELSE chars[1] * 65536 + chars[2] * 256 + chars[3]
             code(i) == _BASE_LIST[((n \div (64 ^ (3 - i))) % 64) + 1]
         IN  (IF nbytes = 1 THEN code(0) \o code(1)
              ELSE IF nbytes = 2 THEN code(0) \o code(1) \o code(2)
              ELSE code(0) \o code(1) \o code(2) \o code(3))
             \o quote_chunks(SubSeq(chars, nbytes + 1, Len(chars)))

_quote(src) ==
    LET chars == encode_utf8(src)
        nbytes == IF chars = <<>> THEN 0 ELSE ((Len(chars) - 1) % 3) + 1
    IN  <<"_", "Q">> \o quote_chunks(chars) \o <<"_", digits[nbytes + 1]>>

\* Number of bytes in the tailing chunk.
InTailLen(c) == c \in {<<"_", "0">>, <<"_", "1">>, <<"_", "2">>, <<"_", "3">>}
_TAIL_LEN(c) == CHOOSE k \in 0..3 : c = <<"_", digits[k + 1]>>

\* _unquote, its for loop over the characters of one chunk: i characters of
\* nchars are read, n is the 24-bit integer so far.  It ends with the offset,
\* the end of the quoted part once the tail is seen, n and the chunk's number
\* of bytes; err: an IndexError or KeyError was raised.
RECURSIVE unquote_chars(_, _, _, _, _, _)
unquote_chars(src, off, end, i, nchars, n) ==
    IF i = nchars
    THEN [off |-> off, end |-> end, n |-> n, nbytes |-> 3, err |-> FALSE]
    ELSE IF off + 1 > Len(src)
    THEN [off |-> off, end |-> end, n |-> n, nbytes |-> 0, err |-> TRUE]
    ELSE IF src[off + 1] = "_"
    THEN LET char == SubSeq(src, off + 1, IF off + 2 > Len(src) THEN Len(src) ELSE off + 2)
         IN  IF InTailLen(char)
             THEN [off |-> off + 2, end |-> off + 2, n |-> n,
                   nbytes |-> IF _TAIL_LEN(char) = 3 THEN 0 ELSE _TAIL_LEN(char),
                   err |-> FALSE]
             ELSE IF InBaseDict(char)
             THEN unquote_chars(src, off + 2, end, i + 1, nchars,
                                n + _BASE_DICT(char) * (64 ^ (3 - i)))
             ELSE [off |-> off, end |-> end, n |-> n, nbytes |-> 0, err |-> TRUE]
    ELSE IF InBaseDict(<<src[off + 1]>>)
    THEN unquote_chars(src, off + 1, end, i + 1, nchars,
                       n + _BASE_DICT(<<src[off + 1]>>) * (64 ^ (3 - i)))
    ELSE [off |-> off, end |-> end, n |-> n, nbytes |-> 0, err |-> TRUE]

\* _unquote, its while loop over the chunks: raw collects the bytes.
RECURSIVE unquote_chunks(_, _, _, _)
unquote_chunks(src, off, end, raw) ==
    IF off >= end
    THEN [off |-> off, raw |-> raw,
          err |-> ~(off >= 2 /\ off <= Len(src) /\ InTailLen(SubSeq(src, off - 1, off)))]
    ELSE LET nchars == IF end - off < 4 THEN end - off ELSE 4
             c == unquote_chars(src, off, end, 0, nchars, 0)
             bytes == [i \in 1..c.nbytes |-> (c.n \div (256 ^ (3 - i))) % 256]
         IN  IF c.err THEN [off |-> off, raw |-> raw, err |-> TRUE]
             ELSE unquote_chunks(src, c.off, c.end, raw \o bytes)

\* _unquote(src, dst, off, end): the string appended to dst and the offset
\* returned.
_unquote(src, off, end) ==
    LET u == unquote_chunks(src, off + 2, end, <<>>)
    IN  [off |-> u.off, str |-> decode_utf8(u.raw), err |-> u.err]

\* encode_col_name, its while loop over the non-alphanumeric runs from
\* offset off on.
RECURSIVE quote_runs(_, _)
quote_runs(name, off) ==
    LET starts == {i \in off..(Len(name) - 1) : ~IsAlnum(name[i + 1])}
    IN  IF starts = {} THEN SubSeq(name, off + 1, Len(name))
        ELSE LET start == Smallest(starts)
                 ends == {i \in start..(Len(name) - 1) : IsAlnum(name[i + 1])}
                 end == IF ends = {} THEN Len(name) ELSE Smallest(ends)
             IN  SubSeq(name, off + 1, start)
                 \o _quote(SubSeq(name, start + 1, end))
                 \o quote_runs(name, end)

\* "".join(dst)
RECURSIVE join(_)
join(dst) == IF dst = <<>> THEN <<>> ELSE Head(dst) \o join(Tail(dst))

\* encode_col_name(name, ignore_reserved)
RECURSIVE encode_col_name(_, _)
encode_col_name(name, ignore_reserved) ==
    IF name.t = "none" THEN <<"_", "N">>
    ELSE IF name.t = "int" THEN <<"_", "I">> \o str_int(name.i)
    ELSE IF name.t = "float" THEN <<"_", "F">> \o str_float(name)
    ELSE IF name.t = "Timestamp"
    THEN <<"_", "D">> \o encode_col_name(TupleName(<<name.ts, StrName(name.tz)>>), TRUE)
    ELSE IF name.t = "tuple"
    THEN <<"_", "T">>
         \o join([i \in 1..Len(name.e) |->
                    encode_col_name(name.e[i], TRUE)
                    \o (IF i # Len(name.e) THEN <<"_", "S">> ELSE <<>>)])
    ELSE IF Len(name.s) = 0 THEN <<"_", "E">>
    ELSE IF ignore_reserved /\ (startswith(name.s, IDX_COL_NAME) \/ name.s \in _RESERVED_NAMES)
    THEN name.s
    ELSE quote_runs(name.s, 0)

\* decode_col_name, its while loop over the quoted parts: off is where the
\* last one ended and idx where the next one starts.
RECURSIVE unquote_runs(_, _, _)
unquote_runs(name, off, idx) ==
    IF idx = -1 THEN StrName(SubSeq(name, off + 1, Len(name)))
    ELSE LET u == _unquote(name, idx, Len(name))
             rest == unquote_runs(name, u.off, find(name, <<"_", "Q">>, u.off))
         IN  IF u.err \/ rest = Raised THEN Raised
             ELSE StrName(SubSeq(name, off + 1, idx) \o u.str \o rest.s)

\* Timestamp.fromtimestamp(stamp[0], tz=stamp[1])
fromtimestamp(stamp) ==
    IF /\ stamp.t = "tuple"
       /\ Len(stamp.e) >= 2
       /\ stamp.e[1].t = "float"
       /\ stamp.e[2].t = "str"
    THEN TimestampName(stamp.e[1], stamp.e[2].s)
    ELSE Raised

\* decode_col_name(name)
RECURSIVE decode_col_name(_)
decode_col_name(name) ==
    LET char == name[2]
        parts_ == split(SubSeq(name, 3, Len(name)), <<"_", "S">>)
        dst == [i \in 1..Len(parts_) |-> decode_col_name(parts_[i])]
    IN  IF startswith(name, <<"_">>)
           /\ (startswith(name, IDX_COL_NAME) \/ name \in _RESERVED_NAMES)
        THEN StrName(name)
        ELSE IF startswith(name, <<"_">>) /\ Len(name) < 2 THEN Raised
        ELSE IF startswith(name, <<"_">>) /\ char = "N" THEN NoneName
        ELSE IF startswith(name, <<"_">>) /\ char = "I" THEN int(SubSeq(name, 3, Len(name)))
        ELSE IF startswith(name, <<"_">>) /\ char = "F" THEN float(SubSeq(name, 3, Len(name)))
        ELSE IF startswith(name, <<"_">>) /\ char = "D"
        THEN LET stamp == decode_col_name(SubSeq(name, 3, Len(name)))
             IN  IF stamp = Raised THEN Raised ELSE fromtimestamp(stamp)
        ELSE IF startswith(name, <<"_">>) /\ char = "T"
        THEN IF \E i \in 1..Len(dst) : dst[i] = Raised THEN Raised ELSE TupleName(dst)
        ELSE IF startswith(name, <<"_">>) /\ char = "E" THEN StrName(<<>>)
        ELSE unquote_runs(name, 0, find(name, <<"_", "Q">>, 0))

\* ----------------------------------------------- LazyProxyCategoricalDtype
\* A pyarrow table is known by its name and NoTable is None; the categories
\* of a column are known by the table and the column they were read from,
\* and NoCategories is None.
NoTable == "None"
Tables == {"t1", "t2"}
Columns == {"c1", "c2"}
NoCategories == None

\* validate_categories(pandas.concat(dictionaries of the chunks).unique())
TableCategories(table, column_name) ==
    [k |-> "Index", n |-> 0, table |-> table, column_name |-> column_name]

\* ErrorMessage.catch_bugs_and_request_email(failure_condition, extra_log):
\* whether it raises.
catch_bugs_and_request_email(failure_condition) == failure_condition

\* What a call on the proxies ds gives: the proxies after it, the value it
\* returns and whether it raised.  A returned proxy is known by its index.
ProxyRef(d) == [k |-> "proxy", n |-> d]
PlainDtype(categories) == [k |-> "CategoricalDtype", n |-> 0, categories |-> categories]
Returned(ds, ret) == [dtypes |-> ds, ret |-> ret, raised |-> FALSE]

\* A constructor that binds whatever table it is given.
proxy_unchecked(ds, table, column_name) ==
    Returned(Append(ds, [table |-> table, column_name |-> column_name,
                         ordered |-> FALSE, lazy_categories |-> NoCategories,
                         reads |-> 0]),
             ProxyRef(Len(ds) + 1))

\* LazyProxyCategoricalDtype(table, column_name).  reads counts the reads of
\* the backing table.
LazyProxyCategoricalDtype(ds, table, column_name) ==
    IF catch_bugs_and_request_email(table = NoTable)
    THEN [dtypes |-> ds, ret |-> None, raised |-> TRUE]
    ELSE Returned(Append(ds, [table |-> table, column_name |-> column_name,
                              ordered |-> FALSE, lazy_categories |-> NoCategories,
                              reads |-> 0]),
                  ProxyRef(Len(ds) + 1))

\* A _categories getter that keeps the table after reading it.
categories_keeps_table(ds, d) ==
    IF ds[d].table # NoTable
    THEN Returned([ds EXCEPT ![d].lazy_categories =
                                  TableCategories(ds[d].table, ds[d].column_name),
                             ![d].reads = @ + 1],
                  TableCategories(ds[d].table, ds[d].column_name))
    ELSE Returned(ds, ds[d].lazy_categories)

\* The _categories property of proxy d.
_categories(ds, d) ==
    IF ds[d].table # NoTable
    THEN Returned([ds EXCEPT ![d].lazy_categories =
                                  TableCategories(ds[d].table, ds[d].column_name),
                             ![d].table = NoTable,
                             ![d].reads = @ + 1],
                  TableCategories(ds[d].table, ds[d].column_name))
    ELSE Returned(ds, ds[d].lazy_categories)

\* The setter defined with @_categories.setter.
_set_categories(ds, d, categories) ==
    Returned([ds EXCEPT ![d].lazy_categories = categories, ![d].table = NoTable], None)

\* _new(table, column_name) on proxy d; self.categories reads the
\* _categories property.
_new(ds, d, table, column_name) ==
    IF ds[d].table = NoTable
    THEN LET c == _categories(ds, d)
         IN  Returned(c.dtypes, PlainDtype(c.ret))
    ELSE IF table = ds[d].table /\ column_name = ds[d].column_name
    THEN Returned(ds, ProxyRef(d))
    ELSE LazyProxyCategoricalDtype(ds, table, column_name)

\* ------------------------------------------------------------ the actions
NoOp == [op |-> "init", p |-> 0, q |-> 0, ret |-> None, calls |-> 0, dims |-> 0,
         built |-> 0, flat |-> TRUE, length |-> None, width |-> None,
         rows |-> "full", cols |-> "full", materialize |-> TRUE, raised |-> FALSE,
         table |-> "None", column_name |-> ""]

Init ==
    /\ parts = <<>>
    /\ nodes = <<>>
    /\ metas = [m \in MetaIds |-> <<>>]
    /\ lazy = FALSE
    /\ last = NoOp
    /\ done = {}
    /\ col = NoCol
    /\ dtypes = <<>>

\* The step to the objects R of a finished operation op on receiver p.  last
\* keeps the operation, its receiver, the value it returned, the number of
\* remote function dispatches it made and the number of nodes it built; in
\* holds the inputs of the call that last keeps (materialize: the accessor's
\* argument).
DoWith(R, op, p, in) ==
    /\ parts' = R.parts
    /\ nodes' = R.nodes
    /\ metas' = R.metas
    /\ last' = [in EXCEPT !.op = op, !.p = p, !.ret = R.ret, !.calls = R.calls,
                          !.dims = R.dims, !.built = Len(R.nodes) - Len(nodes),
                          !.raised = R.raised]
    /\ UNCHANGED <<lazy, done, col, dtypes>>

Do(R, op, p) == DoWith(R, op, p, NoOp)

\* The same for an operation that returns a new partition, q: how it was made
\* and the block it denotes are written on it, and in holds the inputs of the
\* call that last keeps (flat: whether the arguments were all flat; length,
\* width: the asserted dimensions; rows, cols: the slices).
Make(R, op, p, how, val, in) ==
    /\ parts' = [R.parts EXCEPT ![Len(R.parts)].how = how, ![Len(R.parts)].val = val]
    /\ nodes' = R.nodes
    /\ metas' = R.metas
    /\ last' = [in EXCEPT !.op = op, !.p = p, !.q = Len(R.parts), !.calls = R.calls,
                          !.built = Len(R.nodes) - Len(nodes)]
    /\ UNCHANGED <<lazy, done, col, dtypes>>

\* LazyExecution.put(value): the global mode, read at each apply.
SetLazy ==
    /\ lazy' = ~lazy
    /\ last' = [NoOp EXCEPT !.op = "set_lazy"]
    /\ UNCHANGED <<parts, nodes, metas, done, col, dtypes>>

\* PandasOnRayDataframePartition.put(obj)
put(S, obj) ==
    __init__(S, Handle(<<"put", Len(S.parts) + 1>>, obj),
             IntV(obj.r), IntV(obj.c), None, 0, 0)

Put ==
    /\ Len(parts) < MaxRoots
    /\ \E obj \in PutValues : Make(put(Cur, obj), "put", 0, "put", obj, NoOp)

\* Whether a call of apply builds a node.
BuildsNode(p, flat) == lazy \/ Pending(p) \/ ~flat

Apply(funcs) ==
    /\ Len(parts) < MaxParts
    /\ \E p \in Alive, func \in funcs, flat_args \in BOOLEAN, flat_kwargs \in BOOLEAN :
          /\ BuildsNode(p, flat_args /\ flat_kwargs) => Len(nodes) < MaxNodes
          /\ Make(apply(Cur, p, func, flat_args, flat_kwargs, lazy), "apply", p,
                  IF lazy THEN "lazy" ELSE "eager",
                  ApplyFunc(func, parts[p].val),
                  [NoOp EXCEPT !.flat = flat_args /\ flat_kwargs])

\* The dimensions a caller may assert for the result of func on p: none, or
\* the dimensions the result has.
NoDims == {[length |-> None, width |-> None]}
AssertedDims(p, func) ==
    LET df == ApplyFunc(func, parts[p].val)
    IN  [length : {None, IntV(df.r)}, width : {None, IntV(df.c)}]

\* add_to_apply_calls with the caller's dimensions left out (asserted = FALSE)
\* or drawn from AssertedDims.
AddToApplyCalls(funcs, asserted) ==
    /\ Len(parts) < MaxParts
    /\ Len(nodes) < MaxNodes
    /\ \E p \in Alive, func \in funcs, flat_args \in BOOLEAN, flat_kwargs \in BOOLEAN :
          \E dims \in IF asserted THEN AssertedDims(p, func) ELSE NoDims :
             Make(add_to_apply_calls(Cur, p, func, flat_args, flat_kwargs,
                                     dims.length, dims.width),
                  "add_to_apply_calls", p, "queued", ApplyFunc(func, parts[p].val),
                  [NoOp EXCEPT !.length = dims.length, !.width = dims.width])

Drain ==
    \E p \in Alive : Do(drain_call_queue(Cur, p), "drain_call_queue", p)

Copy ==
    /\ Len(parts) < MaxParts
    /\ \E p \in Alive : Make(__copy__(Cur, p), "copy", p, "copy", parts[p].val, NoOp)

Del ==
    \E p \in Alive : Do(__del__(Cur, p), "del", p)

\* PandasOnRayDataframePartition(data, length, width) on a handle that
\* RayWrapper.put returned, with the dimensions the caller knows.
Construct ==
    /\ Len(parts) < MaxRoots
    /\ \E obj \in PutValues :
       \E len \in {None, IntV(obj.r)}, wid \in {None, IntV(obj.c)} :
          Make(__init__(Cur, Handle(<<"put", Len(parts) + 1>>, obj), len, wid, None, 0, 0),
               "new", 0, "new", obj, [NoOp EXCEPT !.length = len, !.width = wid])

Mask ==
    /\ Len(parts) < MaxParts
    /\ Len(nodes) < MaxNodes
    /\ \E p \in Alive, row_labels \in Slices, col_labels \in Slices :
          Make(mask(Cur, p, row_labels, col_labels), "mask", p, "mask",
               ApplyFunc(Iloc(row_labels, col_labels), parts[p].val),
               [NoOp EXCEPT !.rows = row_labels, !.cols = col_labels])

Length ==
    \E p \in Alive, mat \in BOOLEAN :
        DoWith(length(Cur, p, mat), "length", p, [NoOp EXCEPT !.materialize = mat])

Width ==
    \E p \in Alive, mat \in BOOLEAN :
        DoWith(width(Cur, p, mat), "width", p, [NoOp EXCEPT !.materialize = mat])

Ip ==
    \E p \in Alive, mat \in BOOLEAN :
        DoWith(ip(Cur, p, mat), "ip", p, [NoOp EXCEPT !.materialize = mat])

\* drain_call_queue on a pending partition whose node is not yet submitted,
\* the submission failing.
DrainFails ==
    \E p \in Alive :
        /\ Pending(p)
        /\ ~nodes[parts[p].data.id].has_result
        /\ Do(drain_call_queue_raises(Cur, p), "drain_call_queue", p)

\* apply in eager mode, the remote call failing.
ApplyFails(funcs) ==
    /\ ~lazy
    /\ \E p \in Alive, func \in funcs, flat_args \in BOOLEAN, flat_kwargs \in BOOLEAN :
          /\ BuildsNode(p, flat_args /\ flat_kwargs) => Len(nodes) < MaxNodes
          /\ DoWith(apply_raises(Cur, p, func, flat_args, flat_kwargs), "apply", p,
                    [NoOp EXCEPT !.flat = flat_args /\ flat_kwargs])

\* The caller is inside RayWrapper.wait.
Blocked == last.op = "wait_blocked"

\* wait() on p, up to RayWrapper.wait.
Wait ==
    \E p \in Alive : Do(wait(Cur, p), "wait_blocked", p)

\* RayWrapper.wait returns, and with it wait(): the backend has completed the
\* handle.
WaitReturn ==
    /\ Blocked
    /\ Completed(parts[last.p].data, done)
    /\ last' = [last EXCEPT !.op = "wait"]
    /\ UNCHANGED <<parts, nodes, metas, lazy, done, col, dtypes>>

\* The handles of the remote calls made so far.
Submitted ==
    {nodes[n].res.id : n \in {i \in 1..Len(nodes) : nodes[i].has_result}}
    \cup {parts[p].data.id : p \in {i \in Alive : ~Pending(i)}}

\* The Remote Executor completes a call.
Complete ==
    \E h \in Submitted \ done :
        /\ done' = done \cup {h}
        /\ UNCHANGED <<parts, nodes, metas, lazy, last, col, dtypes>>

\* The column names that are put through the codec: strings over a few
\* characters, the reserved names, integers, floats, a Timestamp, and tuples
\* of them.
StrChars == {"a", "S", "_", "-"}
Strs == UNION {[1..n -> StrChars] : n \in 0..MaxStrLen}
ReservedStrs ==
    {IDX_COL_NAME, IDX_COL_NAME \o <<"-">>, ROWID_COL_NAME, MODIN_UNNAMED_SERIES_LABEL}
UTC == <<"U", "T", "C">>
ScalarNames ==
    {NoneName}
    \cup {IntName(i) : i \in {-1, 0, 7, 12}}
    \cup {FloatName(1, 5), FloatName(0, 0)}
    \cup {TimestampName(FloatName(1, 0), UTC)}
    \cup {StrName(x) : x \in Strs \cup ReservedStrs}
TupleElems ==
    {NoneName, IntName(7), FloatName(1, 5), TimestampName(FloatName(1, 0), UTC),
     StrName(<<>>), StrName(<<"a">>), StrName(<<"a", "-">>), StrName(<<"_", "S">>)}
TupleNames == UNION {{TupleName(e) : e \in [1..n -> TupleElems]} : n \in 1..MaxTupleLen}
ColNames == ScalarNames \cup TupleNames

\* A column name to be encoded.
InitCodec ==
    /\ parts = <<>>
    /\ nodes = <<>>
    /\ metas = [m \in MetaIds |-> <<>>]
    /\ lazy = FALSE
    /\ last = NoOp
    /\ done = {}
    /\ dtypes = <<>>
    /\ col \in {[step |-> "name", name |-> name] : name \in ColNames}

Encode ==
    /\ col.step = "name"
    /\ col' = [step |-> "encoded", name |-> col.name,
               enc |-> encode_col_name(col.name, TRUE)]
    /\ UNCHANGED <<parts, nodes, metas, lazy, last, done, dtypes>>

Decode ==
    /\ col.step = "encoded"
    /\ col' = [step |-> "decoded", name |-> col.name, enc |-> col.enc,
               dec |-> decode_col_name(col.enc)]
    /\ UNCHANGED <<parts, nodes, metas, lazy, last, done, dtypes>>

\* The step to the proxies of R of a finished call op on proxy d with the
\* arguments table and column_name.
DoProxy(R, op, d, table, column_name) ==
    /\ dtypes' = R.dtypes
    /\ last' = [NoOp EXCEPT !.op = op, !.p = d, !.ret = R.ret, !.raised = R.raised,
                            !.table = table, !.column_name = column_name]
    /\ UNCHANGED <<parts, nodes, metas, lazy, done, col>>

NewProxy ==
    \E table \in Tables \cup {NoTable}, column_name \in Columns :
       /\ table # NoTable => Len(dtypes) < MaxDtypes
       /\ DoProxy(LazyProxyCategoricalDtype(dtypes, table, column_name),
                  "LazyProxyCategoricalDtype", 0, table, column_name)

New_ ==
    \E d \in 1..Len(dtypes), table \in Tables \cup {NoTable}, column_name \in Columns :
        /\ dtypes[d].table # NoTable => Len(dtypes) < MaxDtypes
        /\ DoProxy(_new(dtypes, d, table, column_name), "_new", d, table, column_name)

Categories ==
    \E d \in 1..Len(dtypes) :
        DoProxy(_categories(dtypes, d), "_categories", d, NoTable, "")

\* The setter, with categories a caller has validated.
SetCategories ==
    \E d \in 1..Len(dtypes), table \in Tables, column_name \in Columns :
        DoProxy(_set_categories(dtypes, d, TableCategories(table, column_name)),
                "_set_categories", d, NoTable, "")

\* ----------------------------------------------------------------- claims
Nodes == 1..Len(nodes)
Parts == 1..Len(parts)

\* The partitions constructed on node n that are alive, and those of them
\* whose drain_call_queue has completed.
Sharers(n) == {p \in nodes[n].owners : parts[p].alive}
DrainedSharers(n) == {p \in Sharers(n) : parts[p].drained}

\* C1: a node is submitted at most once, and exactly once as soon as one of
\* the partitions sharing it has drained; every sharer that has drained holds
\* the handle, the MetaList and the offset of that one submission; and a
\* drain of a sharer after another sharer has drained makes no remote call.
C1_AtMostOnceSubmission ==
    \A n \in Nodes :
        /\ nodes[n].subs <= 1
        /\ \A p \in DrainedSharers(n) :
              /\ nodes[n].subs = 1
              /\ parts[p].data = nodes[n].res
              /\ ~IsDeferredExecution(parts[p].data)
              /\ parts[p].meta = nodes[n].meta
              /\ parts[p].off = nodes[n].off
        /\ (/\ last.op = "drain_call_queue"
            /\ last.p \in DrainedSharers(n)
            /\ DrainedSharers(n) # {last.p}) => last.calls = 0

\* Two sharers of one node have both drained, the second a moment ago.
C1_Witness ==
    \E n \in Nodes :
        /\ Cardinality(DrainedSharers(n)) >= 2
        /\ last.op = "drain_call_queue"
        /\ last.p \in DrainedSharers(n)
        /\ last.calls = 0
        /\ nodes[n].subs = 1

\* Node m is node n or is built, through any number of nodes, over node n.
RECURSIVE Reaches(_, _)
Reaches(m, n) ==
    \/ m = n
    \/ /\ IsDeferredExecution(nodes[m].data)
       /\ Reaches(nodes[m].data.id, n)

\* The partitions that referenced node n: those constructed on n or on a node
\* built over n.
Referencing(n) == UNION {nodes[m].owners : m \in {i \in Nodes : Reaches(i, n)}}

\* C2: once every partition that referenced a node has been destroyed, the
\* node's reference count is 0; no node is submitted twice, and every
\* submitted node was submitted while its reference count was positive.
C2_RefCountBalance ==
    \A n \in Nodes :
        /\ nodes[n].subs <= 1
        /\ nodes[n].has_result => nodes[n].count_at_sub > 0
        /\ (/\ Referencing(n) # {}
            /\ \A p \in Referencing(n) : ~parts[p].alive) => nodes[n].ref_counter = 0

\* Two nodes whose partitions are all destroyed: one was drained first, the
\* other was never submitted.
C2_Witness ==
    \E n, m \in Nodes :
        /\ Referencing(n) # {} /\ Referencing(m) # {}
        /\ \A p \in Referencing(n) \cup Referencing(m) : ~parts[p].alive
        /\ nodes[n].subs = 1 /\ nodes[m].subs = 0
        /\ nodes[n].ref_counter = 0 /\ nodes[m].ref_counter = 0

\* C3: a drain_call_queue on a partition whose drain has completed before, or
\* whose data is a resolved handle, makes no remote call and changes neither
\* a reference count nor the partition's handle, MetaList and offset.
C3_IdempotentDrain ==
    [][(/\ last'.op = "drain_call_queue"
        /\ (parts[last'.p].drained \/ ~Pending(last'.p)))
       => (/\ last'.calls = 0
           /\ nodes' = nodes
           /\ parts' = parts
           /\ metas' = metas)]_vars

\* The drain that just ended was the second of a partition that is the only
\* one to have held its node, which nothing else could have submitted.
C3_Witness ==
    /\ last.op = "drain_call_queue"
    /\ last.calls = 0
    /\ parts[last.p].drained
    /\ \E n \in Nodes :
          /\ nodes[n].owners = {last.p}
          /\ nodes[n].subs = 1
          /\ \A m \in Nodes : nodes[m].data # DE(n)

\* RayWrapper.materialize(handle)
materialize(h) == h.df

\* C4: whatever the mode each apply ran in, a partition that holds a resolved
\* handle materializes to the block its calls denote when applied one after
\* the other, and a pending one denotes that block.
C4_LazyToggleEquivalence ==
    \A p \in Alive :
        IF Pending(p)
        THEN EvalNode(nodes, parts[p].data.id) = parts[p].val
        ELSE materialize(parts[p].data) = parts[p].val

\* add_one then double on 3, both in lazy mode, drained once: 8.
C4_Witness ==
    \E p, q \in Alive :
        /\ parts[p].how = "lazy" /\ parts[q].how = "lazy"
        /\ parts[p].drained /\ Pending(q)
        /\ nodes[parts[q].data.id].func = Fn("add_one")
        /\ \E n \in Nodes : /\ p \in nodes[n].owners
                             /\ nodes[n].func = Fn("double")
                             /\ nodes[n].data = parts[q].data
        /\ materialize(parts[p].data).v = 8

\* What partition q reads from its row-count, column-count and location
\* caches in the MetaLists ms.
Reads(ms, q) == <<_length_cache(ms, q), _width_cache(ms, q), _ip_cache(ms, q)>>

\* Partitions p and q share one MetaList, one at offset 0 and one at offset 2.
SharedAt0And2(p, q) ==
    /\ p \in Alive /\ q \in Alive
    /\ parts[p].meta = parts[q].meta
    /\ {parts[p].off, parts[q].off} = {0, 2}

\* C5 as stated: when p and q share one MetaList at offsets 0 and 2, a
\* length, width or ip call on p, whatever it writes to p's caches, leaves
\* the three values q reads from its caches unchanged.
C5_AnyWriteLeavesOtherReads ==
    [][\A p, q \in Alive :
          (/\ SharedAt0And2(p, q)
           /\ last'.op \in {"length", "width", "ip"}
           /\ last'.p = p)
          => Reads(metas', parts'[q]) = Reads(metas, parts[q])]_vars

\* C5, amended: when p and q share one MetaList at offsets 0 and 2, a length
\* or width call on p leaves the three values q reads unchanged; an ip call
\* on p leaves q's row count and column count unchanged, and q reads from
\* the location cache, the array's last slot, the value p reads from it.
C5_OffsetIsolation ==
    [][\A p, q \in Alive :
          (SharedAt0And2(p, q) /\ last'.p = p) =>
             /\ last'.op \in {"length", "width"}
                   => Reads(metas', parts'[q]) = Reads(metas, parts[q])
             /\ last'.op = "ip"
                   => /\ _length_cache(metas', parts'[q]) = _length_cache(metas, parts[q])
                      /\ _width_cache(metas', parts'[q]) = _width_cache(metas, parts[q])
                      /\ _ip_cache(metas', parts'[q]) = _ip_cache(metas', parts'[p])]_vars

\* p has written its row count and, a moment ago, the location; q, at the
\* other offset, still reads the handle of its row count.
C5_Witness ==
    \E p, q \in Alive :
        /\ SharedAt0And2(p, q)
        /\ parts[p].off = 2
        /\ last.op = "ip" /\ last.p = p /\ last.ret = StrV(Worker)
        /\ _length_cache(metas, parts[p]).k = "int"
        /\ IsObjectIDType(_length_cache(metas, parts[q]))
        /\ _ip_cache(metas, parts[q]) = StrV(Worker)

\* C6: mask over two full slices on a partition whose cached length and
\* width are both present, as integers or as handles, returns a partition
\* whose cached length and width are the receiver's, and makes no remote call.
C6_FullSliceAliasing ==
    [][(/\ last'.op = "mask"
        /\ last'.rows = "full" /\ last'.cols = "full"
        /\ _length_cache(metas, parts[last'.p]) # None
        /\ _width_cache(metas, parts[last'.p]) # None)
       => (/\ _length_cache(metas', parts'[last'.q]) = _length_cache(metas, parts[last'.p])
           /\ _width_cache(metas', parts'[last'.q]) = _width_cache(metas, parts[last'.p])
           /\ last'.calls = 0)]_vars

\* A full mask of a partition whose length is a handle and whose width is an
\* integer.
C6_Witness ==
    /\ last.op = "mask" /\ last.rows = "full" /\ last.cols = "full"
    /\ last.calls = 0
    /\ IsObjectIDType(_length_cache(metas, parts[last.p]))
    /\ _width_cache(metas, parts[last.p]).k = "int"
    /\ Reads(metas, parts[last.q])[1] = _length_cache(metas, parts[last.p])
    /\ Reads(metas, parts[last.q])[2] = _width_cache(metas, parts[last.p])

\* C7: apply in lazy mode returns a partition on a new, unsubmitted node
\* built over the receiver's data, whose reference count is 1, and makes no
\* remote call.
C7_LazyApplyDefers ==
    (last.op = "apply" /\ lazy) =>
        LET q == last.q
            n == parts[q].data.id
        IN  /\ Pending(q)
            /\ last.built = 1
            /\ n = Len(nodes)
            /\ nodes[n].data = parts[last.p].data
            /\ nodes[n].ref_counter = 1
            /\ nodes[n].subs = 0
            /\ ~nodes[n].has_result
            /\ last.calls = 0

\* A lazy apply on a pending partition and one on a resolved partition.
C7_Witness ==
    /\ last.op = "apply" /\ lazy
    /\ Pending(last.p)
    /\ \E p \in Alive : parts[p].how = "lazy" /\ ~IsDeferredExecution(nodes[parts[p].data.id].data)

\* C8: in eager mode, apply on a resolved handle with flat arguments makes
\* one remote call, builds no node, changes no reference count and returns a
\* resolved partition; in every other case it builds one node, increments
\* its count and executes it.
C8_EagerFastPath ==
    [][(last'.op = "apply" /\ ~lazy) =>
        LET q == last'.q
            n == Len(nodes')
        IN  IF ~Pending(last'.p) /\ last'.flat
            THEN /\ last'.calls = 1
                 /\ last'.built = 0
                 /\ nodes' = nodes
                 /\ ~IsDeferredExecution(parts'[q].data)
            ELSE /\ last'.built = 1
                 /\ nodes'[n].ref_counter = 1
                 /\ nodes'[n].subs = 1
                 /\ last'.calls = 1
                 /\ parts'[q].data = nodes'[n].res
                 /\ ~IsDeferredExecution(parts'[q].data)]_vars

\* An eager apply took the direct call and another took the node path.
C8_Witness ==
    /\ last.op = "apply" /\ ~lazy /\ last.built = 0 /\ last.calls = 1
    /\ \E n \in Nodes : nodes[n].owners = {} /\ nodes[n].ref_counter = 1

\* C9: in either mode add_to_apply_calls returns a partition on a new,
\* unsubmitted node built over the receiver's data, caches the asserted
\* length and width and makes no remote call; and length or width on a
\* pending partition whose slot is present returns the slot, makes no remote
\* call and leaves every node unsubmitted and the partition pending.
C9_AddToApplyCallsDefers ==
    [][/\ last'.op = "add_to_apply_calls" =>
             LET q == last'.q
                 n == Len(nodes')
             IN  /\ parts'[q].data = DE(n)
                 /\ last'.built = 1
                 /\ nodes'[n].data = parts[last'.p].data
                 /\ nodes'[n].subs = 0
                 /\ ~nodes'[n].has_result
                 /\ last'.calls = 0
                 /\ _length_cache(metas', parts'[q]) = last'.length
                 /\ _width_cache(metas', parts'[q]) = last'.width
       /\ \A op \in {"length", "width"} :
             LET p == last'.p
                 slot == IF op = "length" THEN _length_cache(metas, parts[p])
                         ELSE _width_cache(metas, parts[p])
             IN  (last'.op = op /\ Pending(p) /\ slot # None) =>
                    /\ last'.ret = slot
                    /\ last'.calls = 0
                    /\ nodes' = nodes
                    /\ parts' = parts]_vars

\* In eager mode, length has just returned the asserted length of a partition
\* that add_to_apply_calls built, which is still pending on an unsubmitted
\* node.
C9_Witness ==
    /\ ~lazy
    /\ last.op = "length" /\ last.calls = 0
    /\ parts[last.p].how = "queued"
    /\ Pending(last.p)
    /\ nodes[parts[last.p].data.id].subs = 0
    /\ last.ret = IntV(parts[last.p].val.r)

\* C10: length and width return the slot when it is present, with no drain
\* and no remote call.  When it is absent the call queue is drained first: a
\* pending partition gets its slots from the drain and no dimension call is
\* made; a resolved one makes exactly one call, which fills both slots.
\* Either way both slots are present afterwards, so the other accessor then
\* takes the first case.
C10_JointDimensionFetch ==
    [][\A op \in {"length", "width"} :
          LET p == last'.p
              slot == IF op = "length" THEN _length_cache(metas, parts[p])
                      ELSE _width_cache(metas, parts[p])
              slot2 == IF op = "length" THEN _length_cache(metas', parts'[p])
                       ELSE _width_cache(metas', parts'[p])
          IN  last'.op = op =>
                 IF slot # None
                 THEN /\ last'.ret.n = slot.n
                      /\ last'.calls = 0 /\ last'.dims = 0
                      /\ nodes' = nodes /\ parts' = parts
                 ELSE /\ ~IsDeferredExecution(parts'[p].data)
                      /\ IF Pending(p)
                         THEN /\ last'.dims = 0
                              /\ nodes'[parts[p].data.id].subs = 1
                              /\ last'.calls = 1 - nodes[parts[p].data.id].subs
                         ELSE /\ last'.dims = 1 /\ last'.calls = 1
                              /\ nodes' = nodes /\ parts' = parts
                      /\ _length_cache(metas', parts'[p]) # None
                      /\ _width_cache(metas', parts'[p]) # None
                      /\ _length_cache(metas', parts'[p]).n = parts'[p].val.r
                      /\ _width_cache(metas', parts'[p]).n = parts'[p].val.c
                      /\ last'.ret.n = slot2.n]_vars

\* length on a resolved partition constructed without dimensions has just
\* made the one call, and both of its slots are present.
C10_Witness ==
    /\ last.op = "length" /\ last.dims = 1 /\ last.calls = 1
    /\ parts[last.p].how = "new"
    /\ _length_cache(metas, parts[last.p]) # None
    /\ _width_cache(metas, parts[last.p]) # None

\* C11: ip(materialize=True) on a pending partition whose location slot is
\* absent returns the materialized worker location that the drain put in the
\* last slot, and what ip returns is always what the location slot holds
\* after the call.
C11_IpObservesDrainedLocation ==
    [][last'.op = "ip" =>
          LET p == last'.p
          IN  /\ last'.ret = _ip_cache(metas', parts'[p])
              /\ (/\ last'.materialize
                  /\ Pending(p)
                  /\ _ip_cache(metas, parts[p]) = None)
                 => /\ ~IsDeferredExecution(parts'[p].data)
                    /\ last'.ret = StrV(Worker)]_vars

\* C12: while wait() is blocked on the backend the partition is already
\* drained, its data a resolved handle, and no node was submitted twice;
\* when wait() has returned the partition's data is a resolved handle that
\* the backend has completed, and wait() returned no value.
C12_WaitOrdering ==
    /\ (Blocked \/ last.op = "wait") =>
          /\ ~Pending(last.p)
          /\ last.calls <= 1
          /\ last.ret = None
          /\ \A n \in Nodes : /\ nodes[n].subs <= 1
                              /\ last.p \in nodes[n].owners => nodes[n].subs = 1
    /\ last.op = "wait" => Completed(parts[last.p].data, done)

\* wait() on a pending partition has submitted its node and has returned
\* after the backend completed it.
C12_Witness ==
    /\ last.op = "wait"
    /\ last.calls = 1
    /\ parts[last.p].drained
    /\ parts[last.p].data.id \in done

\* C13: a drain_call_queue or an eager apply whose submission fails raises
\* to the caller after that one attempt and constructs no partition; after a
\* failed drain the partition still holds its pending node, MetaList and
\* offset, and no reference count has changed; the destruction of a pending
\* partition decrements its node's count by exactly one, and no count is
\* ever negative.
C13_FailurePropagation ==
    [][/\ last'.raised =>
             /\ last'.calls = 1
             /\ parts' = parts
             /\ metas' = metas
             /\ \A n \in Nodes : /\ nodes'[n].subs = nodes[n].subs
                                 /\ nodes'[n].has_result = nodes[n].has_result
             /\ last'.op = "drain_call_queue" =>
                    /\ nodes' = nodes
                    /\ Pending(last'.p)
       /\ (last'.op = "del" /\ Pending(last'.p)) =>
             LET n == parts[last'.p].data.id
             IN  nodes'[n].ref_counter = nodes[n].ref_counter - 1
       /\ \A n \in 1..Len(nodes') : nodes'[n].ref_counter >= 0]_vars

\* A drain has just failed on a partition that is alone on its node: the
\* node is unsubmitted and its count is still 1.
C13_Witness ==
    /\ last.raised
    /\ last.op = "drain_call_queue"
    /\ Pending(last.p)
    /\ nodes[parts[last.p].data.id].owners = {last.p}
    /\ nodes[parts[last.p].data.id].subs = 0
    /\ nodes[parts[last.p].data.id].ref_counter = 1

\* C14: decode_col_name(encode_col_name(name)) equals name for every
\* supported column name.
C14_CodecRoundTrip ==
    col.step = "decoded" => col.dec = col.name

\* C15: the string encode_col_name returns consists of alphanumeric
\* characters and underscores only, and a string name made only of
\* alphanumeric characters is returned unchanged.
C15_EncodedAlphabet ==
    col.step = "encoded" =>
        /\ \A i \in 1..Len(col.enc) : IsAlnum(col.enc[i]) \/ col.enc[i] = "_"
        /\ (/\ col.name.t = "str"
            /\ col.name.s # <<>>
            /\ \A i \in 1..Len(col.name.s) : IsAlnum(col.name.s[i]))
           => col.enc = col.name.s

Holders(ps, ns, n) ==
    Cardinality({p \in 1..Len(ps) : ps[p].alive /\ ps[p].data = DE(n)})
    + Cardinality({m \in 1..Len(ns) :
                      /\ ~ns[m].has_result /\ ns[m].ref_counter > 0
                      /\ ns[m].data = DE(n)})
    + (IF ns[n].has_result /\ ns[n].owners = {} THEN 1 ELSE 0)

\* The reference count of node n in ns, 0 for a node that is not yet built.
CountOf(ns, n) == IF n <= Len(ns) THEN ns[n].ref_counter ELSE 0

\* C17: no reference count is ever negative, and every count is the number
\* of the node's present owners; a partition constructed on a node raises that
\* node's count by exactly 1; a drain_call_queue of a partition that holds a
\* node lowers that node's count by exactly 1 and leaves the partition
\* holding a handle; the destruction of a partition that holds a node lowers
\* that node's count by exactly 1, and the destruction of one that holds a
\* handle (a drained one among them) changes no count.
C17_CountReleasedOncePerOwner ==
    [][/\ \A n \in 1..Len(nodes') :
             /\ nodes'[n].ref_counter >= 0
             /\ nodes'[n].ref_counter = Holders(parts', nodes', n)
       /\ \A q \in (Len(parts) + 1)..Len(parts') :
             IsDeferredExecution(parts'[q].data) =>
                LET n == parts'[q].data.id
                IN  /\ nodes'[n].ref_counter = CountOf(nodes, n) + 1
                    /\ q \in nodes'[n].owners
       /\ (last'.op = "drain_call_queue" /\ Pending(last'.p)) =>
             LET n == parts[last'.p].data.id
             IN  /\ nodes'[n].ref_counter = nodes[n].ref_counter - 1
                 /\ ~IsDeferredExecution(parts'[last'.p].data)
       /\ (last'.op = "del" /\ Pending(last'.p)) =>
             LET n == parts[last'.p].data.id
             IN  nodes'[n].ref_counter = nodes[n].ref_counter - 1
       /\ (last'.op \in {"del", "drain_call_queue"} /\ ~Pending(last'.p)) =>
             nodes' = nodes]_vars

\* A partition that held a node was drained and then destroyed, while another
\* partition still holds the node: the count is that one owner's.
C17_Witness ==
    \E n \in Nodes :
        /\ last.op = "del" /\ last.p \in nodes[n].owners
        /\ nodes[n].has_result /\ nodes[n].subs = 1
        /\ \E q \in Sharers(n) : Pending(q)
        /\ \A q \in Sharers(n) : Pending(q)
        /\ nodes[n].ref_counter = Cardinality(Sharers(n))
        /\ ~IsDeferredExecution(nodes[n].data)

\* The nodes that the step submits: those that have their result after it and
\* did not have it before.
SubmittedByStep ==
    {n \in 1..Len(nodes') : nodes'[n].has_result /\ (n > Len(nodes) \/ ~nodes[n].has_result)}

\* C18: every node a step submits, through drain_call_queue or through the
\* node path of eager apply, is submitted while its reference count is
\* positive; the node that eager apply builds is submitted in that call with
\* count 1, the increment apply made before exec; and a node whose count fell
\* to 0 before it was submitted is not submitted afterwards.
C18_IncrementBeforeSubmission ==
    [][/\ \A n \in SubmittedByStep :
             /\ nodes'[n].count_at_sub > 0
             /\ nodes'[n].subs = 1
             /\ last'.op \in {"drain_call_queue", "apply"}
             /\ n <= Len(nodes) => nodes[n].ref_counter > 0
       /\ (last'.op = "apply" /\ ~lazy /\ last'.built = 1) =>
             LET n == Len(nodes')
             IN  /\ n \in SubmittedByStep
                 /\ nodes'[n].count_at_sub = 1
                 /\ nodes'[n].ref_counter = 1
                 /\ parts'[last'.q].data = nodes'[n].res
       /\ (last'.op = "apply" /\ lazy) => SubmittedByStep = {}
       /\ \A n \in Nodes :
             (nodes[n].ref_counter = 0 /\ ~nodes[n].has_result) => ~nodes'[n].has_result]_vars

\* Eager apply on a partition that holds an unsubmitted node built a node and
\* submitted both in one call, each with a positive count.
C18_Witness ==
    /\ last.op = "apply" /\ ~lazy /\ last.built = 1 /\ last.calls = 1
    /\ Pending(last.p)
    /\ LET m == parts[last.p].data.id
           n == Len(nodes)
       IN  /\ nodes[n].data = DE(m)
           /\ nodes[m].has_result /\ nodes[n].has_result
           /\ nodes[m].meta = nodes[n].meta
           /\ nodes[m].count_at_sub > 0 /\ nodes[n].count_at_sub = 1

\* C19: apply (lazy or eager), add_to_apply_calls and __copy__ leave every
\* partition that existed, the receiver among them, with its data, MetaList
\* and offset, and write no slot of a MetaList the receiver can read; if the
\* receiver holds a node, it still holds it afterwards, the node's count is
\* not lower than before and still counts the receiver: after eager apply it
\* is what it was, after the other three it is one more.
C19_ReceiverNotMutated ==
    [][last'.op \in {"apply", "add_to_apply_calls", "copy"} =>
          LET p == last'.p
          IN  /\ \A o \in Parts : parts'[o] = parts[o]
              /\ parts'[p].data = parts[p].data
              /\ parts'[p].meta = parts[p].meta
              /\ parts'[p].off = parts[p].off
              /\ metas'[parts[p].meta] = metas[parts[p].meta]
              /\ Pending(p) =>
                    LET n == parts[p].data.id
                    IN  /\ IsDeferredExecution(parts'[p].data)
                        /\ nodes'[n].ref_counter >= 1
                        /\ nodes'[n].ref_counter =
                              nodes[n].ref_counter
                              + (IF last'.op = "apply" /\ ~lazy THEN 0 ELSE 1)]_vars

\* Eager apply on a partition that holds a node: the node was submitted for
\* the result and the receiver still holds it, counted.
C19_Witness ==
    /\ last.op = "apply" /\ ~lazy
    /\ Pending(last.p)
    /\ ~IsDeferredExecution(parts[last.q].data)
    /\ LET n == parts[last.p].data.id
       IN  /\ nodes[n].has_result
           /\ nodes[n].ref_counter >= 1
           /\ last.p \in Sharers(n)
           /\ ~parts[last.p].drained

\* Two different alive partitions that hold the same data in the objects ps:
\* the same handle (a partition and its copy, or two partitions drained from
\* one node) or the same node.
SameData(ps, p, q) ==
    /\ p # q
    /\ ps[p].alive /\ ps[q].alive
    /\ ps[p].data = ps[q].data

\* The slot of partition q that the accessor op reads.
SlotOf(ms, q, op) == IF op = "length" THEN _length_cache(ms, q) ELSE _width_cache(ms, q)

\* C20: __copy__ returns a partition with the receiver's data, MetaList and
\* offset; two partitions that hold the same data, and so two sharers of a
\* node once both have drained, in either order, reference one MetaList at
\* one offset; the value length() or width() returns is afterwards read
\* through every partition that holds the receiver's data; and when the slot
\* read through such a partition already holds an integer, length() or
\* width() on the receiver returns it without a remote call.
C20_SharedMetadataVisibility ==
    /\ [](\A n \in Nodes : \A p, q \in DrainedSharers(n) :
             /\ parts[p].meta = parts[q].meta
             /\ parts[p].off = parts[q].off
             /\ Reads(metas, parts[p]) = Reads(metas, parts[q]))
    /\ [][/\ last'.op = "copy" =>
              (/\ parts'[last'.q].data = parts[last'.p].data
               /\ parts'[last'.q].meta = parts[last'.p].meta
               /\ parts'[last'.q].off = parts[last'.p].off)
          /\ \A p, q \in 1..Len(parts') :
               SameData(parts', p, q) =>
                  /\ parts'[p].meta = parts'[q].meta
                  /\ parts'[p].off = parts'[q].off
          /\ last'.op \in {"length", "width"} =>
             (\A q \in Parts :
                  /\ (SameData(parts', last'.p, q) /\ last'.materialize) =>
                        SlotOf(metas', parts'[q], last'.op) = last'.ret
                  /\ (/\ SameData(parts, last'.p, q)
                      /\ ~Pending(q)
                      /\ SlotOf(metas, parts[q], last'.op).k = "int") =>
                        /\ last'.calls = 0
                        /\ last'.ret = SlotOf(metas, parts[q], last'.op))]_vars

\* A partition and its copy held one node and both drained; a length was
\* materialized through one of them, and length() on the other has returned
\* it without a remote call.
C20_Witness ==
    \E n \in Nodes : \E p, q \in DrainedSharers(n) :
        /\ p # q
        /\ parts[q].how = "copy"
        /\ last.op = "length" /\ last.p = q /\ last.calls = 0
        /\ last.ret.k = "int"
        /\ _length_cache(metas, parts[p]) = last.ret
        /\ parts[p].meta = ExecMeta(n)

\* The operations of a partition on itself that the cached dimensions are
\* followed through.
OnItself == {"drain_call_queue", "length", "width", "ip", "wait", "wait_blocked"}

\* C21: a row-count or column-count slot of a partition that holds a
\* concrete integer holds the same integer after any drain_call_queue,
\* length(), width(), ip() or wait() on that partition.
C21_CachedDimensionMonotone ==
    [][last'.op \in OnItself =>
          LET p == last'.p
          IN  /\ _length_cache(metas, parts[p]).k = "int" =>
                    _length_cache(metas', parts'[p]) = _length_cache(metas, parts[p])
              /\ _width_cache(metas, parts[p]).k = "int" =>
                    _width_cache(metas', parts'[p]) = _width_cache(metas, parts[p])]_vars

\* Proxy d has released its table.
Released(ds, d) == ds[d].table = NoTable

\* What holds of every step of a proxy whichever way its table is released:
\* a released proxy stays released and its table is read at most once; a
\* read of the categories returns what the proxy stores after it, and for a
\* released proxy what it stored before; _new(table, column_name) with a
\* table on a released proxy returns a plain CategoricalDtype of the stored
\* categories, on a bound proxy the proxy itself exactly when the table and
\* the column are the bound ones, and otherwise a new proxy bound to them;
\* no call changes another proxy.
ProxyStep ==
    /\ \A d \in 1..Len(dtypes) :
          /\ Released(dtypes, d) => Released(dtypes', d)
          /\ dtypes'[d].reads \in {dtypes[d].reads, dtypes[d].reads + 1}
          /\ dtypes'[d].reads <= 1
          /\ dtypes'[d].reads # dtypes[d].reads =>
                (~Released(dtypes, d) /\ Released(dtypes', d))
          /\ d # last'.p => dtypes'[d] = dtypes[d]
    /\ last'.op = "_categories" =>
          /\ last'.ret = dtypes'[last'.p].lazy_categories
          /\ Released(dtypes, last'.p) => last'.ret = dtypes[last'.p].lazy_categories
    /\ (last'.op = "_new" /\ last'.table # NoTable) =>
          LET d == last'.p
          IN  IF Released(dtypes, d)
              THEN /\ last'.ret = PlainDtype(dtypes[d].lazy_categories)
                   /\ dtypes' = dtypes
              ELSE IF last'.table = dtypes[d].table /\ last'.column_name = dtypes[d].column_name
              THEN /\ last'.ret = ProxyRef(d)
                   /\ dtypes' = dtypes
              ELSE /\ last'.ret = ProxyRef(Len(dtypes) + 1)
                   /\ Len(dtypes') = Len(dtypes) + 1
                   /\ dtypes'[Len(dtypes')].table = last'.table
                   /\ dtypes'[Len(dtypes')].column_name = last'.column_name
                   /\ dtypes'[Len(dtypes')].reads = 0
                   /\ dtypes'[d] = dtypes[d]

\* C22: a proxy's table goes from bound to released at most once, on the
\* first read of the categories and on nothing else, and is never bound
\* again; the table is read at most once; the categories a released proxy
\* stores never change, so every later read returns the same; and _new
\* behaves as ProxyStep says.
C22_ProxyOneWayReadOnce ==
    [][/\ ProxyStep
       /\ \A d \in 1..Len(dtypes) :
             /\ (~Released(dtypes, d) /\ Released(dtypes', d)) =>
                   /\ last'.op = "_categories" /\ last'.p = d
                   /\ dtypes'[d].reads = 1
             /\ Released(dtypes, d) =>
                   dtypes'[d].lazy_categories = dtypes[d].lazy_categories]_vars

\* C22 (amended): the table is released at most once, by the first read of
\* the categories or by an assignment through the setter, and is never bound
\* again; the table is read at most once, and only by the read that releases
\* it; the categories a released proxy stores change only by an assignment
\* through the setter, so between two such assignments every read returns
\* the same; and _new behaves as ProxyStep says.
C22_ProxyOneWayReadOnceOrSet ==
    [][/\ ProxyStep
       /\ \A d \in 1..Len(dtypes) :
             /\ (~Released(dtypes, d) /\ Released(dtypes', d)) =>
                   /\ last'.p = d
                   /\ \/ last'.op = "_categories" /\ dtypes'[d].reads = 1
                      \/ last'.op = "_set_categories" /\ dtypes'[d].reads = 0
             /\ (Released(dtypes, d) /\ ~(last'.op = "_set_categories" /\ last'.p = d)) =>
                   dtypes'[d].lazy_categories = dtypes[d].lazy_categories]_vars

\* _new on a proxy that released its table by a read has returned a plain
\* dtype of the stored categories, beside a proxy that was released through
\* the setter without a read and stores other categories.
C22_Witness ==
    /\ last.op = "_new" /\ last.table # NoTable
    /\ Released(dtypes, last.p) /\ dtypes[last.p].reads = 1
    /\ last.ret = PlainDtype(dtypes[last.p].lazy_categories)
    /\ \E e \in 1..Len(dtypes) :
          /\ Released(dtypes, e) /\ dtypes[e].reads = 0
          /\ dtypes[e].lazy_categories # dtypes[last.p].lazy_categories

Next ==
    \/ SetLazy
    \/ Put
    \/ Apply(Funcs)
    \/ AddToApplyCalls({Fn("add_one")}, FALSE)
    \/ Drain
    \/ Copy
    \/ Del

Spec == Init /\ [][Next]_vars

\* The accessors length, width and ip on partitions that share MetaLists: a
\* constructed partition, the partitions queued over it, and their copies.
NextMeta ==
    \/ Construct
    \/ AddToApplyCalls({Fn("add_one")}, FALSE)
    \/ Drain
    \/ Copy
    \/ Length
    \/ Width
    \/ Ip

SpecMeta == Init /\ [][NextMeta]_vars

\* Call queues built with asserted dimensions, in both modes.
NextQueue ==
    \/ SetLazy
    \/ Construct
    \/ AddToApplyCalls({Fn("add_one")}, TRUE)
    \/ Length
    \/ Width

SpecQueue == Init /\ [][NextQueue]_vars

\* Masks of a constructed partition and of its masks.
NextMask ==
    \/ Construct
    \/ Mask
    \/ Length
    \/ Width

SpecMask == Init /\ [][NextMask]_vars

\* wait() and the Remote Executor: the caller issues no other operation
\* while it is blocked.
NextWait ==
    \/ ~Blocked /\ Put
    \/ ~Blocked /\ AddToApplyCalls({Fn("add_one")}, FALSE)
    \/ ~Blocked /\ Copy
    \/ ~Blocked /\ Drain
    \/ ~Blocked /\ Wait
    \/ WaitReturn
    \/ Complete

SpecWait == Init /\ [][NextWait]_vars

\* Submissions that fail, in eager mode.
NextFail ==
    \/ Put
    \/ AddToApplyCalls({Fn("add_one")}, FALSE)
    \/ Copy
    \/ Drain
    \/ DrainFails
    \/ ApplyFails({Fn("add_one")})
    \/ Del

SpecFail == Init /\ [][NextFail]_vars

\* A column name is encoded and the result decoded.
NextCodec ==
    \/ Encode
    \/ Decode

SpecCodec == InitCodec /\ [][NextCodec]_vars

\* The calls on LazyProxyCategoricalDtype objects.
NextProxy ==
    \/ NewProxy
    \/ New_
    \/ Categories
    \/ SetCategories

SpecProxy == Init /\ [][NextProxy]_vars
====
